---- MODULE Spec2Model ----
(***************************************************************************)
(* A model of the shablang interpreter (src/shablang.py): the evaluator    *)
(* _eval_inner run by eval() over a list of tokens, with its value stack,  *)
(* its call stack of frames, and the chain of nested _eval_inner           *)
(* invocations made through call_func.                                     *)
(*                                                                         *)
(* Tokens are strings, as in the source.  A value is a record              *)
(*   [t, n, c]:  t = "int"  with n the integer,                            *)
(*               t = "bool" with n = 1 (True) or 0 (False), as Python's    *)
(*                          bool is an int,                                *)
(*               t = "list" with c the list of tokens.                     *)
(* A frame (a Python dict) is a function from names to values.             *)
(*                                                                         *)
(* Three specifications: Spec is eval on a list of tokens with debug left  *)
(* False, SpecDebug the same with debug=True, and SpecRepl is repl(), where*)
(* the tokens come line by line from iter_tokens.                          *)
(***************************************************************************)
EXTENDS Integers, Sequences, FiniteSets, TLC

(***************************************************************************)
(* Bounds of the model.                                                    *)
(***************************************************************************)
\* no run is followed for more than MaxSteps steps
MaxSteps == 1700
\* no more than MaxDepth nested _eval_inner invocations
MaxDepth == 18
\* the while-loop programs count up to at most MaxN
MaxN == 3

(***************************************************************************)
(* Values.                                                                 *)
(***************************************************************************)
IntV(n) == [t |-> "int", n |-> n, c |-> <<>>]

BoolV(b) == [t |-> "bool", n |-> IF b THEN 1 ELSE 0, c |-> <<>>]

ListV(c) == [t |-> "list", n |-> 0, c |-> c]

\* the outcome of an operator that raises exception e instead of returning
RaiseV(e) == [t |-> "raise", n |-> 0, c |-> <<e>>]

IsNum(v) == v.t \in {"int", "bool"}

\* Python truthiness, as `if value:` and `not x` see it
Truthy(v) == IF v.t = "list" THEN v.c # <<>> ELSE v.n # 0

(***************************************************************************)
(* Strings: characters, digits, int(token), and Python's string order.     *)
(***************************************************************************)
CharAt(s, i) == SubSeq(s, i, i)

StrTail(s, i) == SubSeq(s, i, Len(s))

Digits == <<"0", "1", "2", "3", "4", "5", "6", "7", "8", "9">>

DigitVal(ch) == (CHOOSE i \in 1..10 : Digits[i] = ch) - 1

\* str.isdigit(): non-empty and every character a digit
IsDigit(s) == Len(s) > 0 /\ \A i \in 1..Len(s) : \E d \in 1..10 : Digits[d] = CharAt(s, i)

RECURSIVE DigitsVal(_)
DigitsVal(s) ==
  IF Len(s) = 0 THEN 0
  ELSE 10 * DigitsVal(SubSeq(s, 1, Len(s) - 1)) + DigitVal(CharAt(s, Len(s)))

\* int(token), were the sign to be dropped
ParseInt_unsigned(s) == IF CharAt(s, 1) = "-" THEN DigitsVal(StrTail(s, 2)) ELSE DigitsVal(s)

\* int(token) for a token that passed the literal test
ParseInt(s) == IF CharAt(s, 1) = "-" THEN 0 - DigitsVal(StrTail(s, 2)) ELSE DigitsVal(s)

\* printable ASCII characters in code-point order: AsciiLo from 35 ('#') to
\* 91 ('['), AsciiHi from 97 ('a') to 126 ('~'); the tokens of the model hold
\* no character but these and the four singled out in Ord
AsciiLo == "#$%&'()*+,-./0123456789:;<=>?@ABCDEFGHIJKLMNOPQRSTUVWXYZ["

AsciiHi == "abcdefghijklmnopqrstuvwxyz{|}~"

\* ord(ch)
Ord(ch) ==
  CASE ch = "!" -> 33
    [] ch = "]" -> 93
    [] ch = "^" -> 94
    [] ch = "_" -> 95
    [] \E i \in 1..Len(AsciiLo) : CharAt(AsciiLo, i) = ch ->
         34 + (CHOOSE i \in 1..Len(AsciiLo) : CharAt(AsciiLo, i) = ch)
    [] OTHER -> 96 + (CHOOSE i \in 1..Len(AsciiHi) : CharAt(AsciiHi, i) = ch)

RECURSIVE StrLess(_, _)
StrLess(a, b) ==
  IF Len(b) = 0 THEN FALSE
  ELSE IF Len(a) = 0 THEN TRUE
  ELSE IF CharAt(a, 1) # CharAt(b, 1) THEN Ord(CharAt(a, 1)) < Ord(CharAt(b, 1))
  ELSE StrLess(StrTail(a, 2), StrTail(b, 2))

\* list < list: the first differing element decides, else the shorter list
RECURSIVE ListLess(_, _)
ListLess(a, b) ==
  IF b = <<>> THEN FALSE
  ELSE IF a = <<>> THEN TRUE
  ELSE IF Head(a) # Head(b) THEN StrLess(Head(a), Head(b))
  ELSE ListLess(Tail(a), Tail(b))

RECURSIVE Repeat(_, _)
Repeat(c, k) == IF k <= 0 THEN <<>> ELSE c \o Repeat(c, k - 1)

\* Python's & and | on (unbounded, two's complement) integers
RECURSIVE BitAnd(_, _)
BitAnd(a, b) ==
  IF a = 0 \/ b = 0 THEN 0
  ELSE IF a = -1 THEN b
  ELSE IF b = -1 THEN a
  ELSE (a % 2) * (b % 2) + 2 * BitAnd(a \div 2, b \div 2)

RECURSIVE BitOr(_, _)
BitOr(a, b) ==
  IF a = 0 THEN b
  ELSE IF b = 0 THEN a
  ELSE IF a = -1 \/ b = -1 THEN -1
  ELSE (IF a % 2 = 1 \/ b % 2 = 1 THEN 1 ELSE 0) + 2 * BitOr(a \div 2, b \div 2)

(***************************************************************************)
(* The operator tables.                                                    *)
(***************************************************************************)
UNARY_OPERATORS == {"~", "!", "abs"}

BINARY_OPERATORS ==
  {"+", "-", "*", "/", "==", "!=", "<", ">", "<=", ">=", "&", "|", "min", "max"}

UnaryResult(op, x) ==
  CASE op = "~" -> IF IsNum(x) THEN IntV(0 - x.n) ELSE RaiseV("TypeError")
    [] op = "!" -> BoolV(~Truthy(x))
    [] op = "abs" -> IF IsNum(x) THEN IntV(IF x.n < 0 THEN 0 - x.n ELSE x.n)
                     ELSE RaiseV("TypeError")

\* x == y
PyEq(x, y) ==
  IF x.t = "list" /\ y.t = "list" THEN x.c = y.c
  ELSE IF x.t = "list" \/ y.t = "list" THEN FALSE
  ELSE x.n = y.n

Comparable(x, y) == (IsNum(x) /\ IsNum(y)) \/ (x.t = "list" /\ y.t = "list")

\* x < y, for comparable x and y
PyLt(x, y) == IF IsNum(x) THEN x.n < y.n ELSE ListLess(x.c, y.c)

BinaryResult(op, x, y) ==
  CASE op = "+" ->
         IF IsNum(x) /\ IsNum(y) THEN IntV(x.n + y.n)
         ELSE IF x.t = "list" /\ y.t = "list" THEN ListV(x.c \o y.c)
         ELSE RaiseV("TypeError")
    [] op = "-" ->
         IF IsNum(x) /\ IsNum(y) THEN IntV(x.n - y.n) ELSE RaiseV("TypeError")
    [] op = "*" ->
         IF IsNum(x) /\ IsNum(y) THEN IntV(x.n * y.n)
         ELSE IF x.t = "list" /\ IsNum(y) THEN ListV(Repeat(x.c, y.n))
         ELSE IF IsNum(x) /\ y.t = "list" THEN ListV(Repeat(y.c, x.n))
         ELSE RaiseV("TypeError")
    [] op = "/" ->
         \* true division: the quotient is a float, which the model's values
         \* do not include
         IF ~(IsNum(x) /\ IsNum(y)) THEN RaiseV("TypeError")
         ELSE IF y.n = 0 THEN RaiseV("ZeroDivisionError")
         ELSE RaiseV("float result")
    [] op = "==" -> BoolV(PyEq(x, y))
    [] op = "!=" -> BoolV(~PyEq(x, y))
    [] op = "<" -> IF Comparable(x, y) THEN BoolV(PyLt(x, y)) ELSE RaiseV("TypeError")
    [] op = ">" -> IF Comparable(x, y) THEN BoolV(PyLt(y, x)) ELSE RaiseV("TypeError")
    [] op = "<=" ->
         IF Comparable(x, y) THEN BoolV(PyLt(x, y) \/ PyEq(x, y)) ELSE RaiseV("TypeError")
    [] op = ">=" ->
         IF Comparable(x, y) THEN BoolV(PyLt(y, x) \/ PyEq(x, y)) ELSE RaiseV("TypeError")
    [] op = "&" ->
         IF x.t = "bool" /\ y.t = "bool" THEN BoolV(x.n = 1 /\ y.n = 1)
         ELSE IF IsNum(x) /\ IsNum(y) THEN IntV(BitAnd(x.n, y.n))
         ELSE RaiseV("TypeError")
    [] op = "|" ->
         IF x.t = "bool" /\ y.t = "bool" THEN BoolV(x.n = 1 \/ y.n = 1)
         ELSE IF IsNum(x) /\ IsNum(y) THEN IntV(BitOr(x.n, y.n))
         ELSE RaiseV("TypeError")
    [] op = "min" ->
         \* min(x, y) is y only when y < x
         IF Comparable(x, y) THEN (IF PyLt(y, x) THEN y ELSE x) ELSE RaiseV("TypeError")
    [] op = "max" ->
         \* max(x, y) is y only when y > x
         IF Comparable(x, y) THEN (IF PyLt(x, y) THEN y ELSE x) ELSE RaiseV("TypeError")

(***************************************************************************)
(* The state.                                                              *)
(*                                                                         *)
(* invocations is the chain of _eval_inner invocations in progress, the    *)
(* outermost first.  Each holds what that invocation and the call_func     *)
(* that made it keep in local variables:                                   *)
(*   tokens     what its iterator has not yet produced,                    *)
(*   new_frame  call_func's argument,                                      *)
(*   resume     where the caller goes on when it returns: "token" (its     *)
(*              next token), "cond" / "body" (inside its while loop, after *)
(*              the condition / the body), "top" (eval itself),            *)
(*   condition, body   the while loop's two operands,                      *)
(*   entry      (history) the call stack when call_func was entered.       *)
(* depth and token_list are the bracket reader's locals in the innermost   *)
(* invocation; depth = 0 outside it.                                       *)
(* status is "running", "done" (eval returned), "error" (an exception left *)
(* eval) or "interrupted" (repl caught KeyboardInterrupt and returned).    *)
(***************************************************************************)
VARIABLES
  code,          \* eval's argument: the list of tokens
  value_stack,
  call_stack,
  invocations,
  depth,
  token_list,
  output,        \* what was printed, in order
  status,
  err,           \* the exception raised
  debug,         \* eval's and repl's argument
  lines,         \* repl: the lines input() has yet to return
  typed,         \* (history) repl: the lines input() has returned
  steps,         \* (history) the steps taken
  last,          \* (history) the last step: its name, its token, the state before it
  opened,        \* (history) what the iterator still held right after the last `[`
  body_runs      \* (history) how many times a while loop has started its body

vars ==
  <<code, value_stack, call_stack, invocations, depth, token_list, output, status, err,
    debug, lines, typed, steps, last, opened, body_runs>>

None == IntV(0)

\* {}
EmptyFrame == [name \in {} |-> None]

\* frame[varname] = value
SetItem(frame, varname, value) ==
  [name \in DOMAIN frame \cup {varname} |-> IF name = varname THEN value ELSE frame[name]]

Invocation(tokens, new_frame, resume, condition, body, entry) ==
  [tokens |-> tokens, new_frame |-> new_frame, resume |-> resume,
   condition |-> condition, body |-> body, entry |-> entry]

\* the interpreter's state as one record
State ==
  [value_stack |-> value_stack, call_stack |-> call_stack, invocations |-> invocations,
   depth |-> depth, token_list |-> token_list, output |-> output, status |-> status,
   err |-> err, debug |-> debug, lines |-> lines]

Ok(s) == s.status = "running"

\* Raise, were every call_func in progress to pop its frame as the exception
\* passes (try ... finally)
Raise_popping_frames(s, e) ==
  IF e = "float result" THEN [s EXCEPT !.status = "unmodelled"]
  ELSE [s EXCEPT !.status = "error", !.err = e, !.call_stack = SubSeq(@, 1, 1)]

\* Raise, were the stacks put back to what eval started with
Raise_rolled_back(s, e) ==
  IF e = "float result" THEN [s EXCEPT !.status = "unmodelled"]
  ELSE [s EXCEPT !.status = "error", !.err = e, !.value_stack = <<>>,
                 !.call_stack = <<EmptyFrame>>]

\* exception e is raised; a division's float result, which is none, stops the
\* model instead
Raise(s, e) ==
  IF e = "float result" THEN [s EXCEPT !.status = "unmodelled"]
  ELSE [s EXCEPT !.status = "error", !.err = e]

\* value_stack.append(v)
Push(s, v) == [s EXCEPT !.value_stack = Append(@, v)]

\* value_stack[-1], on a non-empty stack
Peek(s) == s.value_stack[Len(s.value_stack)]

\* value_stack.pop(): IndexError on an empty stack
Pop(s) ==
  IF s.value_stack = <<>> THEN Raise(s, "IndexError")
  ELSE [s EXCEPT !.value_stack = SubSeq(@, 1, Len(@) - 1)]

Emit(s, line) == [s EXCEPT !.output = Append(@, line)]

\* the innermost invocation's iterator yields its next token
NextToken(s) == [s EXCEPT !.invocations[Len(s.invocations)].tokens = Tail(@)]

\* the innermost invocation returns
Return(s) == [s EXCEPT !.invocations = SubSeq(@, 1, Len(@) - 1)]

calldepth(s) == Len(s.invocations) - 1

\* debug_print: a line of trace, '=== ' and two spaces for each level of
\* calldepth before msg, printed when debug is set or force is
debug_print(s, msg, force) ==
  IF s.debug \/ force THEN Emit(s, <<"===", calldepth(s)>> \o msg) ELSE s

\* debug_print_stack, were it to take the values off the stack to show them
debug_print_stack_draining(s, force) ==
  IF s.debug \/ force
  THEN [debug_print(s, <<"Stack", s.value_stack>>, force) EXCEPT !.value_stack = <<>>]
  ELSE s

debug_print_stack(s, force) == debug_print(s, <<"Stack", s.value_stack>>, force)

\* the trace before a token is executed
before_token(s, token) ==
  debug_print(debug_print_stack(s, FALSE),
              <<"Executing", IF token = "[" THEN "[...]" ELSE token>>, FALSE)

\* the trace when _eval_inner has run out of tokens
before_return(s) == debug_print(debug_print_stack(s, FALSE), <<"Returning!..">>, FALSE)

\* getvar, were it to search the call stack without reversing it
RECURSIVE getvar_outermost_first(_, _)
getvar_outermost_first(frames, varname) ==
  IF frames = <<>> THEN RaiseV("NameError")
  ELSE IF varname \in DOMAIN frames[1] THEN frames[1][varname]
  ELSE getvar_outermost_first(Tail(frames), varname)

RECURSIVE getvar(_, _)
getvar(frames, varname) ==
  IF frames = <<>> THEN RaiseV("NameError")
  ELSE IF varname \in DOMAIN frames[Len(frames)] THEN frames[Len(frames)][varname]
  ELSE getvar(SubSeq(frames, 1, Len(frames) - 1), varname)

\* call_func, were it to push a frame whatever new_frame says
call_func_always_frame(s, func, new_frame, resume, condition, body) ==
  LET s1 == [s EXCEPT !.call_stack = Append(@, EmptyFrame)]
  IN IF func.t # "list" THEN Raise(s1, "TypeError")
     ELSE [s1 EXCEPT !.invocations =
             Append(@, Invocation(func.c, new_frame, resume, condition, body, s.call_stack))]

\* call_func up to its call of _eval_inner, and _eval_inner up to its loop:
\* iter() of anything but a list of tokens is a TypeError
call_func(s, func, new_frame, resume, condition, body) ==
  LET s1 == IF new_frame THEN [s EXCEPT !.call_stack = Append(@, EmptyFrame)] ELSE s
  IN IF func.t # "list" THEN Raise(s1, "TypeError")
     ELSE [s1 EXCEPT !.invocations =
             Append(@, Invocation(func.c, new_frame, resume, condition, body, s.call_stack))]

(***************************************************************************)
(* The dispatch of a token, in the order of _eval_inner's if / elif chain. *)
(***************************************************************************)
IsIntLiteral(token) ==
  IsDigit(token) \/ (CharAt(token, 1) = "-" /\ IsDigit(StrTail(token, 2)))

Kind(token) ==
  IF token = "_end_of_line" THEN "_end_of_line"
  ELSE IF IsIntLiteral(token) THEN "int"
  ELSE IF token \in UNARY_OPERATORS THEN "unary"
  ELSE IF token \in BINARY_OPERATORS THEN "binary"
  ELSE IF token \in {"_debug_print", "print", "true", "false", "dup", "drop", "if",
                     "ifelse", "while", "@"} THEN token
  ELSE IF CharAt(token, 1) = "@" THEN "@name"
  ELSE IF token = "[" THEN "["
  ELSE IF CharAt(token, 1) = "=" THEN "=name"
  ELSE "name"

(***************************************************************************)
(* The handlers: the state after the branch of the chain, from the state s *)
(* in which the token has been taken from the iterator.                    *)
(***************************************************************************)
end_of_line(s) == debug_print_stack(s, TRUE)

int_literal(s, token) == Push(s, IntV(ParseInt(token)))

unary_operator(s, token) ==
  LET s1 == Pop(s)
  IN IF ~Ok(s1) THEN s1
     ELSE LET r == UnaryResult(token, Peek(s))
          IN IF r.t = "raise" THEN Raise(s1, r.c[1]) ELSE Push(s1, r)

\* a binary operator, were it to pop x before y
binary_operator_swapped(s, token) ==
  LET s1 == Pop(s)
  IN IF ~Ok(s1) THEN s1
     ELSE LET x == Peek(s)
              s2 == Pop(s1)
          IN IF ~Ok(s2) THEN s2
             ELSE LET y == Peek(s1)
                      r == BinaryResult(token, x, y)
                  IN IF r.t = "raise" THEN Raise(s2, r.c[1]) ELSE Push(s2, r)

\* a binary operator, were it to look for its two operands before it pops any
binary_operator_checked(s, token) ==
  IF Len(s.value_stack) < 2 THEN Raise(s, "IndexError")
  ELSE LET y == s.value_stack[Len(s.value_stack)]
           x == s.value_stack[Len(s.value_stack) - 1]
           s2 == [s EXCEPT !.value_stack = SubSeq(@, 1, Len(@) - 2)]
           r == BinaryResult(token, x, y)
       IN IF r.t = "raise" THEN Raise(s2, r.c[1]) ELSE Push(s2, r)

binary_operator(s, token) ==
  LET s1 == Pop(s)
  IN IF ~Ok(s1) THEN s1
     ELSE LET y == Peek(s)
              s2 == Pop(s1)
          IN IF ~Ok(s2) THEN s2
             ELSE LET x == Peek(s1)
                      r == BinaryResult(token, x, y)
                  IN IF r.t = "raise" THEN Raise(s2, r.c[1]) ELSE Push(s2, r)

debug_print_token(s) ==
  Emit(Emit(s, <<"Call stack", s.call_stack>>), <<"Value stack", s.value_stack>>)

print_token(s) ==
  LET s1 == Pop(s) IN IF ~Ok(s1) THEN s1 ELSE Emit(s1, <<"print", Peek(s)>>)

true_token(s) == Push(s, BoolV(TRUE))

false_token(s) == Push(s, BoolV(FALSE))

dup_token(s) == IF s.value_stack = <<>> THEN Raise(s, "IndexError") ELSE Push(s, Peek(s))

drop_token(s) == Pop(s)

if_token(s) ==
  LET s1 == Pop(s)
  IN IF ~Ok(s1) THEN s1
     ELSE LET if_branch == Peek(s)
              s2 == Pop(s1)
          IN IF ~Ok(s2) THEN s2
             ELSE LET value == Peek(s1)
                  IN IF Truthy(value)
                     THEN call_func(s2, if_branch, FALSE, "token", None, None)
                     ELSE s2

\* `ifelse`, were it to pop the if-branch before the else-branch
ifelse_token_swapped(s) ==
  LET s1 == Pop(s)
  IN IF ~Ok(s1) THEN s1
     ELSE LET if_branch == Peek(s)
              s2 == Pop(s1)
          IN IF ~Ok(s2) THEN s2
             ELSE LET else_branch == Peek(s1)
                      s3 == Pop(s2)
                  IN IF ~Ok(s3) THEN s3
                     ELSE LET value == Peek(s2)
                          IN IF Truthy(value)
                             THEN call_func(s3, if_branch, FALSE, "token", None, None)
                             ELSE call_func(s3, else_branch, FALSE, "token", None, None)

ifelse_token(s) ==
  LET s1 == Pop(s)
  IN IF ~Ok(s1) THEN s1
     ELSE LET else_branch == Peek(s)
              s2 == Pop(s1)
          IN IF ~Ok(s2) THEN s2
             ELSE LET if_branch == Peek(s1)
                      s3 == Pop(s2)
                  IN IF ~Ok(s3) THEN s3
                     ELSE LET value == Peek(s2)
                          IN IF Truthy(value)
                             THEN call_func(s3, if_branch, FALSE, "token", None, None)
                             ELSE call_func(s3, else_branch, FALSE, "token", None, None)

\* `while`, up to the first call of the condition
while_token(s) ==
  LET s1 == Pop(s)
  IN IF ~Ok(s1) THEN s1
     ELSE LET body == Peek(s)
              s2 == Pop(s1)
          IN IF ~Ok(s2) THEN s2
             ELSE LET condition == Peek(s1)
                  IN call_func(s2, condition, FALSE, "cond", condition, body)

call_token(s) ==
  LET s1 == Pop(s)
  IN IF ~Ok(s1) THEN s1 ELSE call_func(s1, Peek(s), TRUE, "token", None, None)

\* `@name`, were it to run the function in the caller's frame
call_name_no_frame(s, token) ==
  LET varname == StrTail(token, 2)
      func == getvar(s.call_stack, varname)
  IN IF func.t = "raise" THEN Raise(s, func.c[1])
     ELSE call_func(s, func, FALSE, "token", None, None)

call_name(s, token) ==
  LET varname == StrTail(token, 2)
      func == getvar(s.call_stack, varname)
  IN IF func.t = "raise" THEN Raise(s, func.c[1])
     ELSE call_func(s, func, TRUE, "token", None, None)

\* `[`: the bracket reader starts
open_bracket(s) == [s EXCEPT !.depth = 1, !.token_list = <<>>]

\* `=name`, were it to assign in a frame of its own when run in a branch or a
\* loop body
set_variable_in_block_scope(s, token) ==
  LET varname == StrTail(token, 2)
      s1 == Pop(s)
      inv == s.invocations[Len(s.invocations)]
  IN IF ~Ok(s1) THEN s1
     ELSE IF inv.resume \in {"token", "cond", "body"} /\ ~inv.new_frame
          THEN s1
          ELSE [s1 EXCEPT !.call_stack[Len(s.call_stack)] = SetItem(@, varname, Peek(s))]

\* `=name`, were it to assign to the innermost frame that binds the name already
set_variable_where_bound(s, token) ==
  LET varname == StrTail(token, 2)
      s1 == Pop(s)
      binders == {k \in 1..Len(s.call_stack) : varname \in DOMAIN s.call_stack[k]}
      target == IF binders = {} THEN Len(s.call_stack)
                ELSE CHOOSE k \in binders : \A j \in binders : j <= k
  IN IF ~Ok(s1) THEN s1
     ELSE [s1 EXCEPT !.call_stack[target] = SetItem(@, varname, Peek(s))]

set_variable(s, token) ==
  LET varname == StrTail(token, 2)
      s1 == Pop(s)
  IN IF ~Ok(s1) THEN s1
     ELSE [s1 EXCEPT !.call_stack[Len(s.call_stack)] = SetItem(@, varname, Peek(s))]

\* a variable reference, were a name that no frame binds to stand for a
\* default value
get_variable_or_default(s, token) ==
  LET value == getvar(s.call_stack, token)
  IN IF value.t = "raise" THEN Push(s, None) ELSE Push(s, value)

get_variable(s, token) ==
  LET value == getvar(s.call_stack, token)
  IN IF value.t = "raise" THEN Raise(s, value.c[1]) ELSE Push(s, value)

\* the bracket reader, were it not to count the `[` it meets
read_bracket_flat(s, token) ==
  IF token = "_end_of_line" THEN s
  ELSE IF token = "[" THEN [s EXCEPT !.token_list = Append(@, token)]
  ELSE IF token = "]" THEN
    IF s.depth - 1 <= 0
    THEN [Push(s, ListV(s.token_list)) EXCEPT !.depth = 0, !.token_list = <<>>]
    ELSE [s EXCEPT !.depth = @ - 1, !.token_list = Append(@, token)]
  ELSE [s EXCEPT !.token_list = Append(@, token)]

\* the bracket reader, were it to collect the end-of-line markers as it does
\* other tokens
read_bracket_keeping_markers(s, token) ==
  IF token = "[" THEN [s EXCEPT !.depth = @ + 1, !.token_list = Append(@, token)]
  ELSE IF token = "]" THEN
    IF s.depth - 1 <= 0
    THEN [Push(s, ListV(s.token_list)) EXCEPT !.depth = 0, !.token_list = <<>>]
    ELSE [s EXCEPT !.depth = @ - 1, !.token_list = Append(@, token)]
  ELSE [s EXCEPT !.token_list = Append(@, token)]

\* one turn of the bracket reader's loop, the token taken from the iterator
read_bracket(s, token) ==
  IF token = "_end_of_line" THEN s
  ELSE IF token = "[" THEN [s EXCEPT !.depth = @ + 1, !.token_list = Append(@, token)]
  ELSE IF token = "]" THEN
    IF s.depth - 1 <= 0
    THEN [Push(s, ListV(s.token_list)) EXCEPT !.depth = 0, !.token_list = <<>>]
    ELSE [s EXCEPT !.depth = @ - 1, !.token_list = Append(@, token)]
  ELSE [s EXCEPT !.token_list = Append(@, token)]

\* the bracket reader, were it to close the brackets that the end of the
\* tokens leaves open
unmatched_bracket_closed(s) ==
  [Push(s, ListV(s.token_list)) EXCEPT !.depth = 0, !.token_list = <<>>]

\* the bracket reader's next(tokens) on an iterator that has no more tokens
unmatched_bracket(s) == Raise(s, "StopIteration")

\* the chain of branches on `token`
Dispatch(s, token) ==
  CASE Kind(token) = "int" -> int_literal(s, token)
    [] Kind(token) = "unary" -> unary_operator(s, token)
    [] Kind(token) = "binary" -> binary_operator(s, token)
    [] Kind(token) = "_debug_print" -> debug_print_token(s)
    [] Kind(token) = "print" -> print_token(s)
    [] Kind(token) = "true" -> true_token(s)
    [] Kind(token) = "false" -> false_token(s)
    [] Kind(token) = "dup" -> dup_token(s)
    [] Kind(token) = "drop" -> drop_token(s)
    [] Kind(token) = "if" -> if_token(s)
    [] Kind(token) = "ifelse" -> ifelse_token(s)
    [] Kind(token) = "while" -> while_token(s)
    [] Kind(token) = "@" -> call_token(s)
    [] Kind(token) = "@name" -> call_name(s, token)
    [] Kind(token) = "[" -> open_bracket(s)
    [] Kind(token) = "=name" -> set_variable(s, token)
    [] Kind(token) = "name" -> get_variable(s, token)

\* the body of _eval_inner's for loop on `token`
Execute(s, token) ==
  IF token = "_end_of_line" THEN end_of_line(s) ELSE Dispatch(before_token(s, token), token)

(***************************************************************************)
(* What follows the return of an invocation, in its caller.                *)
(***************************************************************************)
\* call_func, were it to leave its frame on the call stack
after_call_keeps_frame(s) == Return(s)

\* call_func after _eval_inner has returned
after_call(s) ==
  LET inv == s.invocations[Len(s.invocations)]
      s1 == Return(s)
  IN IF inv.new_frame
     THEN [s1 EXCEPT !.call_stack = SubSeq(@, 1, Len(@) - 1)]
     ELSE s1

\* the while loop, were it to run its body in a frame of its own
after_condition_fresh_frame(s) ==
  LET inv == s.invocations[Len(s.invocations)]
      s1 == after_call(s)
      s2 == Pop(s1)
  IN IF ~Ok(s2) THEN s2
     ELSE IF ~Truthy(Peek(s1)) THEN s2
     ELSE call_func(s2, inv.body, TRUE, "body", inv.condition, inv.body)

\* the while loop after its condition has returned
after_condition(s) ==
  LET inv == s.invocations[Len(s.invocations)]
      s1 == after_call(s)
      s2 == Pop(s1)
  IN IF ~Ok(s2) THEN s2
     ELSE IF ~Truthy(Peek(s1)) THEN s2
     ELSE call_func(s2, inv.body, FALSE, "body", inv.condition, inv.body)

\* the while loop after its body has returned
after_body(s) ==
  LET inv == s.invocations[Len(s.invocations)]
      s1 == after_call(s)
  IN call_func(s1, inv.condition, FALSE, "cond", inv.condition, inv.body)

\* eval after the outermost _eval_inner has returned
after_eval(s) == [Return(s) EXCEPT !.status = "done"]

(***************************************************************************)
(* The programs eval is run on.                                            *)
(***************************************************************************)
\* [ tokens ]
Quote(tokens) == <<"[">> \o tokens \o <<"]">>

\* the literal of integer n
Lit(n) == ToString(n)

\* every sequence of at most n elements of S
SeqsUpTo(S, n) == UNION {[1..k -> S] : k \in 0..n}

\* the doctests of eval
Doctest1 == <<"1", "2", "+", "3", "==">>

Doctest2 == <<"1", "2", "+", "=x", "x", "x", "*", "=y", "x", "y">>

FibBody ==
  <<"=x", "x", "1", "<=">> \o Quote(<<"1">>)
    \o Quote(<<"x", "1", "-", "@fib", "x", "2", "-", "@fib", "+">>) \o <<"ifelse">>

Doctest3(n) ==
  Quote(FibBody) \o <<"=fib", "0", "=i">> \o Quote(<<"i", Lit(n), "<=">>)
    \o Quote(<<"i", "@fib", "print", "i", "1", "+", "=i">>) \o <<"while">>

FibLast == 6

Doctests == {Doctest1, Doctest2, Doctest3(FibLast)}

\* every short run of the tokens of Alphabet
Alphabet == {"1", "x", "=x", "[", "]", "@", "@x", "if", "dup"}

MaxLen == 4

ShortPrograms == SeqsUpTo(Alphabet, MaxLen)

\* one operator applied to operands of every type
Operands ==
  {<<"5">>, <<"2">>, <<"-3">>, <<"0">>, <<"true">>, <<"false">>, Quote(<<>>), Quote(<<"q">>),
   Quote(<<"q", "a">>)}

OperatorPrograms ==
  {<<"9">> \o a \o b \o <<op>> : a \in Operands, b \in Operands, op \in BINARY_OPERATORS}
    \cup {<<"9">> \o a \o <<op>> : a \in Operands, op \in UNARY_OPERATORS \cup BINARY_OPERATORS}
    \cup {<<"5", "2", "-">>}

\* functions and branches nested in one another, reading and writing x and y
Pieces ==
  {<<>>, <<"2", "=x">>, <<"x", "print">>, <<"3", "=y">>, <<"x", "1", "+", "=x">>,
   <<"_debug_print">>}

Wrap(w, tokens) ==
  CASE w = "@" -> Quote(tokens) \o <<"@">>
    [] w = "@f" -> Quote(tokens) \o <<"=f", "@f">>
    [] w = "if" -> <<"true">> \o Quote(tokens) \o <<"if">>
    [] w = "ifelse" -> <<"0">> \o Quote(<<"x">>) \o Quote(tokens) \o <<"ifelse">>
    [] w = "while" ->
         <<"true", "=go">> \o Quote(<<"go">>) \o Quote(tokens \o <<"false", "=go">>)
           \o <<"while">>

Wrappers == {"@", "@f", "if", "ifelse", "while"}

ScopePrograms ==
  {pre \o Wrap(w1, b1 \o Wrap(w2, b2) \o b3) \o post :
     pre \in {<<>>, <<"1", "=x">>}, w1 \in Wrappers, w2 \in Wrappers,
     b1 \in Pieces, b2 \in Pieces, b3 \in {<<>>, <<"x", "print">>},
     post \in {<<"x", "print">>, <<"y", "print">>}}

\* while loops counting i from i0 up to n, at the top level and in a function
LoopExtras == {<<>>, <<"i", "print">>, <<"i", "=j">>, <<"true">> \o Quote(<<"i", "print">>) \o <<"if">>}

Loop(n, extra) ==
  Quote(<<"i", Lit(n), "<=">>) \o Quote(extra \o <<"i", "1", "+", "=i">>) \o <<"while">>

LoopProgram(i0, n, extra, inFunction) ==
  <<Lit(i0), "=i">>
    \o (IF inFunction THEN Quote(Loop(n, extra)) \o <<"@">> ELSE Loop(n, extra))
    \o <<"i">>

LoopPrograms ==
  {LoopProgram(i0, n, extra, f) :
     i0 \in 0..(MaxN + 1), n \in 0..MaxN, extra \in LoopExtras, f \in BOOLEAN}

\* if and ifelse on conditions of every type, above a value that stays
Conditions ==
  {<<"true">>, <<"false">>, <<"0">>, <<"1">>, <<"-2">>, Quote(<<>>), Quote(<<"1">>)}

BranchPrograms ==
  {<<"9">> \o c \o Quote(<<"1", "print">>) \o <<"if">> : c \in Conditions}
    \cup {<<"9">> \o c \o Quote(<<"1", "print">>) \o Quote(<<"2", "print">>) \o <<"ifelse">> :
            c \in Conditions}
    \cup {<<"9">> \o c \o Quote(<<"4", "=x">>) \o Quote(<<"5", "=x">>) \o <<"ifelse", "x">> :
            c \in Conditions}

\* @name, for names of every kind of token, bound to a function, bound to an
\* integer, or unbound
Names ==
  {"f", "x", "1", "-1", "dup", "+", "~", "true", "print", "@", "@f", "[", "]", "=x", "if",
   "_end_of_line"}

NamePrograms ==
  {<<"8">> \o Quote(<<"7", "print">>) \o <<"=" \o name, "6", "@" \o name, "x">> : name \in Names}
    \cup {<<"3", "=" \o name, "6", "@" \o name>> : name \in Names}
    \cup {<<"6", "@" \o name>> : name \in Names}

\* brackets in brackets, end-of-line markers among them, brackets left open
BracketPrograms ==
  {<<"4">> \o Quote(a \o Quote(b) \o c) \o d :
     a \in {<<>>, <<"_end_of_line">>, <<"1">>}, b \in {<<>>, <<"2", "_end_of_line", "x">>},
     c \in {<<>>, <<"3">>}, d \in {<<>>, <<"@">>, <<"dup">>, <<"_end_of_line">>}}
    \cup {<<"[", "1">>, <<"[", "[", "1", "]">>, <<"1", "]">>, <<"[", "_end_of_line">>}

\* drop, on a stack of two values, of one and of none
DropPrograms == {<<"1", "2", "drop">>, <<"1", "drop", "drop">>, <<"1", "drop", "dup">>}

\* a token fails after a function has returned, inside a branch
FailsInBranch ==
  <<"1", "=x", "7">> \o Quote(<<"2", "=x", "3">>) \o <<"@", "true">>
    \o Quote(<<"4", "=z", "5", "nosuch", "6">>) \o <<"if", "8">>

\* a token fails in a function called by a function, once for want of an
\* operand and once on an operand of the wrong type
FailsInCalls ==
  {<<"1", "=a">> \o Quote(<<"2", "=b">> \o Quote(<<"3", "=c">> \o failing \o <<"9">>) \o <<"=g", "@g", "9">>)
     \o <<"@", "9">> : failing \in {<<"+">>, <<"4", "~", "+">>, <<"4">> \o Quote(<<>>) \o <<"+">>, <<"5", "@">>, <<"@c">>, <<"@d">>}}

\* a token that takes values from the stack, on a stack of too few
Takers == {"~", "+", "print", "dup", "drop", "if", "ifelse", "while", "@", "=x"}

TooFew ==
  {SubSeq(<<"1", "2">>, 1, k) \o <<token>> : k \in 0..2, token \in Takers}

ErrorPrograms == {FailsInBranch} \cup FailsInCalls \cup TooFew

\* integer literals and `+`, in every order
SumTokens == {"2", "-3", "10", "+"}

MaxSum == 5

SumPrograms == SeqsUpTo(SumTokens, MaxSum) \cup {<<"007", "-0", "+", "12", "+">>}

Programs ==
  Doctests \cup {Doctest3(n) : n \in 0..FibLast} \cup ShortPrograms \cup OperatorPrograms
    \cup ScopePrograms \cup LoopPrograms \cup BranchPrograms \cup NamePrograms
    \cup BracketPrograms \cup DropPrograms \cup ErrorPrograms \cup SumPrograms

(***************************************************************************)
(* The initial state: eval's, at its call of _eval_inner.                  *)
(***************************************************************************)
\* eval(tokens, debug=dbg) at its call of _eval_inner; input is what the
\* lines of standard input are, for the tokens that come from it
eval_state(tokens, dbg, input) ==
  [value_stack |-> <<>>, call_stack |-> <<EmptyFrame>>,
   invocations |-> <<Invocation(tokens, FALSE, "top", None, None, <<EmptyFrame>>)>>,
   depth |-> 0, token_list |-> <<>>, output |-> <<>>, status |-> "running", err |-> "",
   debug |-> dbg, lines |-> input]

\* the interpreter is in state s, and no step has been taken
Started(s) ==
  /\ value_stack = s.value_stack
  /\ call_stack = s.call_stack
  /\ invocations = s.invocations
  /\ depth = s.depth
  /\ token_list = s.token_list
  /\ output = s.output
  /\ status = s.status
  /\ err = s.err
  /\ debug = s.debug
  /\ lines = s.lines
  /\ typed = <<>>
  /\ steps = 0
  /\ last = [act |-> "eval", token |-> "", pre |-> [s EXCEPT !.invocations = <<>>]]
  /\ opened = <<>>
  /\ body_runs = 0

Init ==
  /\ code \in Programs
  /\ Started(eval_state(code, FALSE, <<>>))

(***************************************************************************)
(* The steps.                                                              *)
(***************************************************************************)
Running == status = "running" /\ steps < MaxSteps

\* the innermost invocation
Cur == invocations[Len(invocations)]

\* the token the innermost invocation's iterator yields next
Token == Head(Cur.tokens)

\* the interpreter is at a token of kind `kind`, outside the bracket reader
AtToken(kind) ==
  /\ Running
  /\ depth = 0
  /\ Cur.tokens # <<>>
  /\ Kind(Token) = kind

\* a step that may enter one more invocation
CanCall == Len(invocations) < MaxDepth

\* the innermost invocation has run out of tokens
AtReturn(resume) ==
  /\ Running
  /\ depth = 0
  /\ Cur.tokens = <<>>
  /\ Cur.resume = resume

\* the state in which the next token has been taken from the iterator and
\* traced
Fetch == before_token(NextToken(State), Token)

Commit(s, act, token) ==
  /\ value_stack' = s.value_stack
  /\ call_stack' = s.call_stack
  /\ invocations' = s.invocations
  /\ depth' = s.depth
  /\ token_list' = s.token_list
  /\ output' = s.output
  /\ status' = s.status
  /\ err' = s.err
  /\ debug' = s.debug
  /\ lines' = s.lines
  /\ typed' = IF act = "input" THEN Append(typed, Head(lines)) ELSE typed
  /\ steps' = steps + 1
  /\ last' = [act |-> act, token |-> token, pre |-> State]
  /\ opened' = IF act = "[" THEN s.invocations[Len(s.invocations)].tokens ELSE opened
  /\ body_runs' =
       IF act = "return_cond" /\ Ok(s) /\ Len(s.invocations) = Len(invocations)
       THEN body_runs + 1
       ELSE body_runs
  /\ UNCHANGED code

EndOfLine == AtToken("_end_of_line") /\ Commit(end_of_line(NextToken(State)), "_end_of_line", Token)

IntLiteral == AtToken("int") /\ Commit(int_literal(Fetch, Token), "int", Token)

UnaryOperator == AtToken("unary") /\ Commit(unary_operator(Fetch, Token), "unary", Token)

BinaryOperator ==
  AtToken("binary") /\ Commit(binary_operator(Fetch, Token), "binary", Token)

DebugPrint ==
  AtToken("_debug_print") /\ Commit(debug_print_token(Fetch), "_debug_print", Token)

PrintValue == AtToken("print") /\ Commit(print_token(Fetch), "print", Token)

PushTrue == AtToken("true") /\ Commit(true_token(Fetch), "true", Token)

PushFalse == AtToken("false") /\ Commit(false_token(Fetch), "false", Token)

Dup == AtToken("dup") /\ Commit(dup_token(Fetch), "dup", Token)

Drop == AtToken("drop") /\ Commit(drop_token(Fetch), "drop", Token)

If == AtToken("if") /\ CanCall /\ Commit(if_token(Fetch), "if", Token)

IfElse == AtToken("ifelse") /\ CanCall /\ Commit(ifelse_token(Fetch), "ifelse", Token)

While == AtToken("while") /\ CanCall /\ Commit(while_token(Fetch), "while", Token)

Call == AtToken("@") /\ CanCall /\ Commit(call_token(Fetch), "@", Token)

CallName == AtToken("@name") /\ CanCall /\ Commit(call_name(Fetch, Token), "@name", Token)

OpenBracket == AtToken("[") /\ Commit(open_bracket(Fetch), "[", Token)

SetVariable == AtToken("=name") /\ Commit(set_variable(Fetch, Token), "=name", Token)

GetVariable == AtToken("name") /\ Commit(get_variable(Fetch, Token), "name", Token)

\* the bracket reader takes a token
ReadBracket ==
  /\ Running
  /\ depth > 0
  /\ Cur.tokens # <<>>
  /\ Commit(read_bracket(NextToken(State), Token), "read", Token)

\* the bracket reader's next(tokens) finds the iterator exhausted
UnmatchedBracket ==
  /\ Running
  /\ depth > 0
  /\ Cur.tokens = <<>>
  /\ Commit(unmatched_bracket(State), "unmatched", "")

\* a branch or a function returns, and its caller goes on to its next token
ReturnToCaller == AtReturn("token") /\ Commit(after_call(before_return(State)), "return", "")

\* a while loop's condition returns
ReturnFromCondition == AtReturn("cond") /\ Commit(after_condition(before_return(State)), "return_cond", "")

\* a while loop's body returns
ReturnFromBody == AtReturn("body") /\ Commit(after_body(before_return(State)), "return_body", "")

\* the outermost invocation returns, and eval with it
ReturnFromEval == AtReturn("top") /\ Commit(after_eval(before_return(State)), "return_eval", "")

Next ==
  \/ EndOfLine
  \/ IntLiteral
  \/ UnaryOperator
  \/ BinaryOperator
  \/ DebugPrint
  \/ PrintValue
  \/ PushTrue
  \/ PushFalse
  \/ Dup
  \/ Drop
  \/ If
  \/ IfElse
  \/ While
  \/ Call
  \/ CallName
  \/ OpenBracket
  \/ SetVariable
  \/ GetVariable
  \/ ReadBracket
  \/ UnmatchedBracket
  \/ ReturnToCaller
  \/ ReturnFromCondition
  \/ ReturnFromBody
  \/ ReturnFromEval

Spec == Init /\ [][Next]_vars

(***************************************************************************)
(* eval with debug=True.                                                   *)
(***************************************************************************)
TracedPrograms ==
  Doctests \cup {Doctest3(n) : n \in 0..MaxN} \cup OperatorPrograms \cup ScopePrograms
    \cup LoopPrograms \cup BranchPrograms \cup NamePrograms \cup BracketPrograms
    \cup DropPrograms

InitDebug ==
  /\ code \in TracedPrograms
  /\ Started(eval_state(code, TRUE, <<>>))

SpecDebug == InitDebug /\ [][Next]_vars

(***************************************************************************)
(* repl: eval on the tokens of iter_tokens, which takes them line by line  *)
(* from input().                                                           *)
(***************************************************************************)
\* line.split('#', 1)[0]
before_comment(line) ==
  IF \E i \in 1..Len(line) : CharAt(line, i) = "#"
  THEN SubSeq(line, 1, (CHOOSE i \in 1..Len(line) :
                          CharAt(line, i) = "#" /\ \A j \in 1..(i - 1) : CharAt(line, j) # "#") - 1)
  ELSE line

\* text.split(), from character i on, `word` being the characters of the
\* word in progress; the lines of the model hold no whitespace but the space
RECURSIVE split_from(_, _, _)
split_from(text, i, word) ==
  LET done == IF word = "" THEN <<>> ELSE <<word>>
  IN IF i > Len(text) THEN done
     ELSE IF CharAt(text, i) = " " THEN done \o split_from(text, i + 1, "")
     ELSE split_from(text, i + 1, word \o CharAt(text, i))

split(text) == split_from(text, 1, "")

\* parse, on the lines code.splitlines() gives
RECURSIVE parse(_)
parse(codelines) ==
  IF codelines = <<>> THEN <<>>
  ELSE split(before_comment(Head(codelines))) \o parse(Tail(codelines))

\* iter_tokens, were each line to be evaluated by an eval of its own
iter_tokens_eval_per_line(s) ==
  LET tokens == parse(<<Head(s.lines)>>)
      s1 == Emit(s, <<"prompt", ": ">>)
  IN [s1 EXCEPT !.lines = Tail(@),
                !.value_stack = <<>>,
                !.call_stack = <<EmptyFrame>>,
                !.invocations[1].tokens =
                  IF tokens # <<>> THEN tokens \o <<"_end_of_line">> ELSE <<>>]

\* iter_tokens is resumed with nothing left to yield and a line to read:
\* input() prompts and returns the line, and the line's tokens and the
\* end-of-line marker are what it yields next
iter_tokens(s) ==
  LET tokens == parse(<<Head(s.lines)>>)
      s1 == Emit(s, <<"prompt", ": ">>)
  IN [s1 EXCEPT !.lines = Tail(@),
                !.invocations[1].tokens =
                  IF tokens # <<>> THEN tokens \o <<"_end_of_line">> ELSE <<>>]

\* input() at the end of standard input
end_of_input(s) == Raise(Emit(s, <<"prompt", ": ">>), "EOFError")

\* repl's except clause: KeyboardInterrupt is caught, and repl returns
keyboard_interrupt(s) == [s EXCEPT !.status = "interrupted"]

\* a bracket that stays open over the lines that follow
OpenSessions ==
  {<<"1 [ 2", "3 dup", "4 ] @">>, <<"[ [", "] 5", "6">>, <<"7 [", "", "# [", "]">>,
   <<"[ 1 _end_of_line", "2 ] dup">>}

\* a session that uses every token of the language
LongSession ==
  <<"0 =i  # count", "[ i 2 <= ] [", "  i print i 1 + =i", "] while",
    "true [ 1 ~ ] [ 2 ] ifelse", "false [ 3 ] if _debug_print", "dup drop [ dup * ] @",
    "[ 4 + ] =f @f">>

InputLines == {"", "1 2 +", "[ =x", "x ] =f", "3 @f", "]", "x # =x", "dup print"}

MaxLines == 3

Sessions == SeqsUpTo(InputLines, MaxLines) \cup OpenSessions \cup {LongSession}

InitRepl ==
  /\ code = <<>>
  /\ \E session \in Sessions : Started(eval_state(<<>>, FALSE, session))

\* AwaitInput, were repl to catch the exception of a line and go on to read
\* the next
AwaitInput_after_error ==
  \/ /\ status = "running"
     /\ steps < MaxSteps
     /\ Len(invocations) = 1
     /\ invocations[1].tokens = <<>>
  \/ /\ status = "error"
     /\ err # "EOFError"
     /\ steps < MaxSteps

\* eval's iterator is asked for a token, and iter_tokens has none left of the
\* lines read
AwaitInput ==
  /\ Running
  /\ Len(invocations) = 1
  /\ Cur.tokens = <<>>

ReadLine == AwaitInput /\ lines # <<>> /\ Commit(iter_tokens(State), "input", "")

EndOfInput == AwaitInput /\ lines = <<>> /\ Commit(end_of_input(State), "eof", "")

\* the interrupt signal, at any moment
Interrupt == Running /\ Commit(keyboard_interrupt(State), "interrupt", "")

NextRepl ==
  \/ EndOfLine
  \/ IntLiteral
  \/ UnaryOperator
  \/ BinaryOperator
  \/ DebugPrint
  \/ PrintValue
  \/ PushTrue
  \/ PushFalse
  \/ Dup
  \/ Drop
  \/ If
  \/ IfElse
  \/ While
  \/ Call
  \/ CallName
  \/ OpenBracket
  \/ SetVariable
  \/ GetVariable
  \/ ReadBracket
  \/ ReturnToCaller
  \/ ReturnFromCondition
  \/ ReturnFromBody
  \/ ReadLine
  \/ EndOfInput
  \/ Interrupt

SpecRepl == InitRepl /\ [][NextRepl]_vars

(***************************************************************************)
(* The interpreter's step as a function of its state, and a run of at most *)
(* `fuel` steps.                                                           *)
(***************************************************************************)
StepState(s) ==
  LET inv == s.invocations[Len(s.invocations)]
  IN IF ~Ok(s) THEN s
     ELSE IF s.depth > 0 THEN
       IF inv.tokens = <<>> THEN unmatched_bracket(s)
       ELSE read_bracket(NextToken(s), Head(inv.tokens))
     ELSE IF inv.tokens # <<>> THEN Execute(NextToken(s), Head(inv.tokens))
     ELSE CASE inv.resume = "token" -> after_call(before_return(s))
            [] inv.resume = "cond" -> after_condition(before_return(s))
            [] inv.resume = "body" -> after_body(before_return(s))
            [] inv.resume = "top" -> after_eval(before_return(s))

RECURSIVE Run(_, _)
Run(s, fuel) == IF ~Ok(s) \/ fuel = 0 THEN s ELSE Run(StepState(s), fuel - 1)

\* every step of the model is the step function's
StepIsStepState == last.act # "eval" => State = StepState(last.pre)

(***************************************************************************)
(* The properties.                                                         *)
(***************************************************************************)
pre == last.pre

\* the `@` / `@name` invocations in progress
InProgress(invs) == Cardinality({k \in 1..Len(invs) : invs[k].new_frame})

Front(seq) == SubSeq(seq, 1, Len(seq) - 1)

Last(seq) == seq[Len(seq)]

\* the last step made the invocation that is now the innermost
Entered == Ok(State) /\ Len(invocations) = Len(pre.invocations) + 1

\* C1: while no error has been raised the call stack is never empty and holds
\* one frame more than there are `@` / `@name` invocations in progress; `@`
\* and `@name` push one frame on entry and their return pops one; the entry
\* and the return of an if, ifelse or while body leave the number of frames as
\* it was; when eval returns, one frame is left.
C1_FramesBalanced ==
  status \in {"running", "done"} =>
    /\ Len(call_stack) >= 1
    /\ Len(call_stack) = 1 + InProgress(invocations)
    /\ (last.act \in {"@", "@name"} /\ Entered) =>
         Len(call_stack) = Len(pre.call_stack) + 1
    /\ (last.act \in {"if", "ifelse", "while", "return_cond", "return_body"}) =>
         Len(call_stack) = Len(pre.call_stack)
    /\ last.act = "return" =>
         Len(call_stack) =
           Len(pre.call_stack) - (IF Last(pre.invocations).new_frame THEN 1 ELSE 0)
    /\ status = "done" => Len(call_stack) = 1 /\ invocations = <<>>

\* a function called from a branch inside a function has returned normally
C1_Witness ==
  /\ status = "running"
  /\ last.act = "return"
  /\ Last(pre.invocations).new_frame
  /\ Len(pre.call_stack) = 3
  /\ Len(call_stack) = 2
  /\ \E k \in 1..Len(invocations) : invocations[k].resume = "body"

\* C2: `=name` pops one value and binds it to name in the innermost frame; the
\* other frames and the other bindings of the innermost frame stay as they
\* were, also when an outer frame binds the same name.
C2_AssignInnermostOnly ==
  (last.act = "=name" /\ status = "running") =>
    LET varname == StrTail(last.token, 2)
        n == Len(pre.call_stack)
        old == pre.call_stack[n]
        new == call_stack[n]
    IN /\ pre.value_stack # <<>>
       /\ value_stack = Front(pre.value_stack)
       /\ Len(call_stack) = n
       /\ \A k \in 1..(n - 1) : call_stack[k] = pre.call_stack[k]
       /\ DOMAIN new = DOMAIN old \cup {varname}
       /\ new[varname] = Last(pre.value_stack)
       /\ \A other \in DOMAIN old \ {varname} : new[other] = old[other]

\* a name that an outer frame binds, and the innermost did not, has been
\* assigned another value
C2_Witness ==
  /\ last.act = "=name"
  /\ status = "running"
  /\ LET varname == StrTail(last.token, 2)
         n == Len(call_stack)
     IN /\ varname \notin DOMAIN pre.call_stack[n]
        /\ DOMAIN pre.call_stack[n] # {}
        /\ \E k \in 1..(n - 1) :
             /\ varname \in DOMAIN call_stack[k]
             /\ call_stack[k][varname] # call_stack[n][varname]

\* the frames of the call stack that bind varname
Binders(frames, varname) == {k \in 1..Len(frames) : varname \in DOMAIN frames[k]}

Innermost(binders) == CHOOSE k \in binders : \A j \in binders : j <= k

\* C3: a variable reference pushes the value the name has in the innermost
\* frame that binds it, whatever the frames further out bind it to and
\* however far out that frame is; it fails only when no frame binds the name.
C3_ReadInnermostBinding ==
  last.act = "name" =>
    LET binders == Binders(pre.call_stack, last.token)
    IN /\ call_stack = pre.call_stack
       /\ binders = {} => status = "error" /\ err = "NameError"
       /\ binders # {} =>
            /\ status = "running"
            /\ value_stack =
                 Append(pre.value_stack, pre.call_stack[Innermost(binders)][last.token])

\* a name bound in the callee's frame and, to another value, in an outer frame
\* has been read in the callee
C3_Witness ==
  /\ last.act = "name"
  /\ status = "running"
  /\ LET binders == Binders(call_stack, last.token)
     IN \E k \in binders :
          /\ k < Innermost(binders)
          /\ call_stack[k][last.token] # call_stack[Innermost(binders)][last.token]
          /\ Last(value_stack) = call_stack[Innermost(binders)][last.token]

PrintedInts(ns) == [k \in 1..Len(ns) |-> <<"print", IntV(ns[k])>>]

\* C4: when an `@` / `@name` invocation returns, the call stack is what it was
\* right before the invocation, frame for frame and binding for binding: while
\* the invocation runs, the frames that were there stay as they were under
\* its own, and its return removes its own.  The recursive Fibonacci doctest
\* prints 1 1 2 3 5 8 13 and leaves the value stack empty.
C4_CallRestoresFrames ==
  /\ \A k \in 1..Len(invocations) :
       invocations[k].new_frame =>
         /\ Len(call_stack) > Len(invocations[k].entry)
         /\ SubSeq(call_stack, 1, Len(invocations[k].entry)) = invocations[k].entry
  /\ (last.act \in {"@", "@name"} /\ Entered) => Last(invocations).entry = pre.call_stack
  /\ (last.act = "return" /\ Last(pre.invocations).new_frame) =>
       /\ status = "running"
       /\ call_stack = Last(pre.invocations).entry
  /\ (status = "done" /\ code = Doctest3(FibLast)) =>
       /\ output = PrintedInts(<<1, 1, 2, 3, 5, 8, 13>>)
       /\ value_stack = <<>>

\* a call made inside a call has returned, whose frame bound a name to another
\* value than its caller's frame does
C4_Witness ==
  /\ last.act = "return"
  /\ status = "running"
  /\ Last(pre.invocations).new_frame
  /\ Len(call_stack) >= 2
  /\ LET callee == Last(pre.call_stack)
         caller == Last(call_stack)
     IN \E name \in DOMAIN callee \cap DOMAIN caller : callee[name] # caller[name]

\* C5: a binary operator takes the top of the stack as its right operand and
\* the value under it as its left operand, and puts op(left, right) in their
\* place, the values below staying as they were: `-` leaves left - right and
\* the comparisons compare left against right; `5 2 -` leaves 3.
C5_BinaryOperandOrder ==
  /\ (last.act = "binary" /\ status = "running") =>
       LET n == Len(pre.value_stack)
           left == pre.value_stack[n - 1]
           right == pre.value_stack[n]
           result == Last(value_stack)
       IN /\ n >= 2
          /\ Len(value_stack) = n - 1
          /\ SubSeq(value_stack, 1, n - 2) = SubSeq(pre.value_stack, 1, n - 2)
          /\ (left.t = "int" /\ right.t = "int") =>
               /\ last.token = "-" => result = IntV(left.n - right.n)
               /\ last.token = "<" => result = BoolV(left.n < right.n)
               /\ last.token = ">" => result = BoolV(left.n > right.n)
               /\ last.token = "<=" => result = BoolV(left.n <= right.n)
               /\ last.token = ">=" => result = BoolV(left.n >= right.n)
  /\ (status = "done" /\ code = <<"5", "2", "-">>) => value_stack = <<IntV(3)>>
  /\ (status = "done" /\ code = Doctest1) => value_stack = <<BoolV(TRUE)>>

\* `-` has been applied to two different integers above a third value
C5_Witness ==
  /\ last.act = "binary"
  /\ last.token = "-"
  /\ status = "running"
  /\ Len(pre.value_stack) >= 3
  /\ LET n == Len(pre.value_stack)
     IN /\ pre.value_stack[n].t = "int"
        /\ pre.value_stack[n - 1].t = "int"
        /\ pre.value_stack[n].n # pre.value_stack[n - 1].n
        /\ Last(value_stack).n = pre.value_stack[n - 1].n - pre.value_stack[n].n

Count(seq, token) == Len(SelectSeq(seq, LAMBDA t : t = token))

\* the bracket depth after the tokens seq that follow a `[`
Level(seq) == 1 + Count(seq, "[") - Count(seq, "]")

NotMarker(token) == token # "_end_of_line"

\* the bracket reader has just met the `]` that ends it
BracketDone == last.act = "read" /\ status = "running" /\ depth = 0

\* what the iterator holds now
Rest == Last(invocations).tokens

\* the tokens taken from the iterator since the `[`, the closing `]` the last
Consumed == SubSeq(opened, 1, Len(opened) - Len(Rest))

\* all but what the bracket reader pushes: from `[` on nothing but the
\* iterator and the reader's own locals changes; the reader ends at the first
\* `]` that brings the depth to 0, the evaluator goes on right after it, and
\* one value has been pushed
BracketReaderFrame ==
  /\ (status = "running" /\ depth > 0) =>
       /\ last.act \in {"[", "read"}
       /\ value_stack = pre.value_stack
       /\ call_stack = pre.call_stack
       /\ output = pre.output
       /\ Len(invocations) = Len(pre.invocations)
       /\ Len(Rest) <= Len(opened)
       /\ Rest = SubSeq(opened, Len(opened) - Len(Rest) + 1, Len(opened))
       /\ depth = Level(Consumed)
       /\ \A j \in 0..Len(Consumed) : Level(SubSeq(Consumed, 1, j)) >= 1
  /\ BracketDone =>
       /\ Len(Rest) < Len(opened)
       /\ Rest = SubSeq(opened, Len(opened) - Len(Rest) + 1, Len(opened))
       /\ Last(Consumed) = "]"
       /\ Level(Consumed) = 0
       /\ \A j \in 0..(Len(Consumed) - 1) : Level(SubSeq(Consumed, 1, j)) >= 1
       /\ Len(value_stack) = Len(pre.value_stack) + 1
       /\ Front(value_stack) = pre.value_stack
       /\ call_stack = pre.call_stack
       /\ output = pre.output
       /\ Len(invocations) = Len(pre.invocations)

\* C6 as stated: the CodeBlock pushed holds the tokens strictly between the
\* `[` and its matching `]`.
C6_Original ==
  /\ BracketReaderFrame
  /\ BracketDone => Last(value_stack) = ListV(Front(Consumed))

\* C6: on `[` the bracket reader takes tokens from the iterator the evaluator
\* reads, counting depth from 1, ends at the first `]` that brings the depth to
\* 0, and pushes one CodeBlock: the tokens strictly between the `[` and that
\* `]`, without the end-of-line markers among them, which it skips.  Nothing
\* else changes meanwhile, and the evaluator goes on with the token after the
\* `]`.
C6_BracketReader ==
  /\ BracketReaderFrame
  /\ BracketDone => Last(value_stack) = ListV(SelectSeq(Front(Consumed), NotMarker))

\* a bracket holding a bracket and an end-of-line marker has been read
C6_Witness ==
  /\ BracketDone
  /\ Count(Consumed, "[") > 0
  /\ Count(Consumed, "_end_of_line") > 0
  /\ Rest # <<>>

LoopParams ==
  {<<i0, n, extra, f>> : i0 \in 0..(MaxN + 1), n \in 0..MaxN, extra \in LoopExtras, f \in BOOLEAN}

\* the value varname resolves to
Resolved(frames, varname) == frames[Innermost(Binders(frames, varname))][varname]

\* C7: `while` pops the body and then the condition, once; each time the
\* condition has run in the current frame its result is popped, and the body
\* is run in the current frame if it is truthy, the loop left if not.  In
\* `i0 =i [ i n <= ] [ ... i 1 + =i ] while`, at the top level or in a function
\* entered with i bound in the global frame only, every check of the condition
\* finds i at i0 plus the number of bodies run, the body runs
\* max(0, n - i0 + 1) times, and the loop ends.
C7_WhileCounts ==
  /\ (last.act = "while" /\ Entered) =>
       LET k == Len(pre.value_stack)
       IN /\ k >= 2
          /\ value_stack = SubSeq(pre.value_stack, 1, k - 2)
          /\ Last(invocations).tokens = pre.value_stack[k - 1].c
          /\ Last(invocations).condition = pre.value_stack[k - 1]
          /\ Last(invocations).body = pre.value_stack[k]
          /\ call_stack = pre.call_stack
  /\ (last.act = "return_cond" /\ status = "running") =>
       LET loop == Last(pre.invocations)
           k == Len(pre.value_stack)
       IN /\ k >= 1
          /\ value_stack = Front(pre.value_stack)
          /\ call_stack = pre.call_stack
          /\ IF Truthy(pre.value_stack[k])
             THEN /\ Len(invocations) = Len(pre.invocations)
                  /\ Last(invocations).tokens = loop.body.c
                  /\ Last(invocations).resume = "body"
                  /\ ~Last(invocations).new_frame
             ELSE invocations = Front(pre.invocations)
  /\ (last.act = "return_body" /\ status = "running") =>
       /\ value_stack = pre.value_stack
       /\ call_stack = pre.call_stack
       /\ Len(invocations) = Len(pre.invocations)
       /\ Last(invocations).tokens = Last(pre.invocations).condition.c
       /\ Last(invocations).resume = "cond"
       /\ ~Last(invocations).new_frame
  /\ code \in LoopPrograms =>
       LET p == CHOOSE q \in LoopParams : code = LoopProgram(q[1], q[2], q[3], q[4])
           i0 == p[1]
           n == p[2]
           inFunction == p[4]
           expected == IF n - i0 + 1 > 0 THEN n - i0 + 1 ELSE 0
           printing == p[3] # <<>> /\ p[3] # <<"i", "=j">>
       IN /\ status \in {"running", "done"}
          /\ status = "running" => ENABLED Next
          /\ body_runs <= expected
          /\ last.act = "return_cond" =>
               LET started == Len(invocations) = Len(pre.invocations)
                   run == IF started THEN body_runs - 1 ELSE body_runs
               IN /\ Resolved(call_stack, "i") = IntV(i0 + run)
                  /\ started <=> i0 + run <= n
          /\ status = "done" =>
               /\ body_runs = expected
               /\ value_stack = <<IntV(IF inFunction \/ expected = 0 THEN i0 ELSE n + 1)>>
               /\ printing => output = [k \in 1..expected |-> <<"print", IntV(i0 + k - 1)>>]

\* a loop in a function, counting on from a global i, has run its body more than
\* once and ended
C7_Witness ==
  /\ status = "done"
  /\ body_runs >= 2
  /\ \E i0 \in 0..(MaxN + 1), n \in 0..MaxN :
       /\ code = LoopProgram(i0, n, <<"i", "print">>, TRUE)
       /\ body_runs = n - i0 + 1

TruthyConditions == {<<"true">>, <<"1">>, <<"-2">>, Quote(<<"1">>)}

\* invocation k is the body of an if, an ifelse or a while, or a while's condition
IsBlock(inv) == ~inv.new_frame /\ inv.resume \in {"token", "cond", "body"}

\* C8: the body of an if, an ifelse or a while (and a while's condition) runs
\* in the frame that was current when the token was executed: a `=name` in it
\* binds the name in that frame, and the frame keeps the binding when the
\* construct has finished.
C8_BodiesShareFrame ==
  /\ (last.act \in {"if", "ifelse", "while"} /\ Entered) =>
       /\ call_stack = pre.call_stack
       /\ Last(invocations).entry = pre.call_stack
       /\ IsBlock(Last(invocations))
  /\ (last.act \in {"return_cond", "return_body"} /\ Ok(State)
        /\ Len(invocations) = Len(pre.invocations)) =>
       /\ Last(invocations).entry = pre.call_stack
       /\ IsBlock(Last(invocations))
  /\ (last.act = "=name" /\ status = "running" /\ IsBlock(Last(pre.invocations))) =>
       LET current == Len(Last(pre.invocations).entry)
       IN /\ Len(call_stack) = current
          /\ Len(pre.call_stack) = current
          /\ StrTail(last.token, 2) \in DOMAIN call_stack[current]
          /\ call_stack[current][StrTail(last.token, 2)] = Last(pre.value_stack)
  /\ (last.act \in {"return", "return_cond", "return_body"}
        /\ IsBlock(Last(pre.invocations))) =>
       call_stack = pre.call_stack
  /\ \A c \in Conditions :
       (/\ status = "done"
        /\ code = <<"9">> \o c \o Quote(<<"4", "=x">>) \o Quote(<<"5", "=x">>)
                    \o <<"ifelse", "x">>) =>
         value_stack = <<IntV(9), IntV(IF c \in TruthyConditions THEN 4 ELSE 5)>>

\* a branch or a loop body run in a function's frame has returned, and the
\* frame holds a name it did not hold when the body was entered
C8_Witness ==
  /\ last.act \in {"return", "return_body"}
  /\ status = "running"
  /\ IsBlock(Last(pre.invocations))
  /\ Len(call_stack) >= 2
  /\ \E name \in DOMAIN Last(call_stack) :
       name \notin DOMAIN Last(Last(pre.invocations).entry)

\* C9: `ifelse` pops the else-block, the if-block and the condition, and runs
\* one of the two blocks, once: the if-block when the condition is truthy, the
\* else-block when not.  `if` pops the branch and the condition, and does no
\* more when the condition is falsy.
C9_IfElseOneBranch ==
  /\ (last.act = "ifelse" /\ status = "running") =>
       LET k == Len(pre.value_stack)
           else_block == pre.value_stack[k]
           if_block == pre.value_stack[k - 1]
           condition == pre.value_stack[k - 2]
       IN /\ k >= 3
          /\ value_stack = SubSeq(pre.value_stack, 1, k - 3)
          /\ call_stack = pre.call_stack
          /\ output = pre.output
          /\ Len(invocations) = Len(pre.invocations) + 1
          /\ Last(invocations).tokens =
               (IF Truthy(condition) THEN if_block.c ELSE else_block.c)
          /\ Last(invocations).resume = "token"
  /\ last.act = "return" =>
       /\ invocations = Front(pre.invocations)
       /\ value_stack = pre.value_stack
       /\ output = pre.output
  /\ (last.act = "if" /\ status = "running") =>
       LET k == Len(pre.value_stack)
           condition == pre.value_stack[k - 1]
       IN /\ k >= 2
          /\ value_stack = SubSeq(pre.value_stack, 1, k - 2)
          /\ call_stack = pre.call_stack
          /\ output = pre.output
          /\ IF Truthy(condition)
             THEN /\ Len(invocations) = Len(pre.invocations) + 1
                  /\ Last(invocations).tokens = pre.value_stack[k].c
                  /\ Last(invocations).resume = "token"
             ELSE State = [NextToken(pre) EXCEPT !.value_stack = SubSeq(@, 1, k - 2)]
  /\ \A c \in Conditions :
       /\ (/\ status = "done"
           /\ code = <<"9">> \o c \o Quote(<<"1", "print">>) \o Quote(<<"2", "print">>)
                       \o <<"ifelse">>) =>
            /\ output = PrintedInts(IF c \in TruthyConditions THEN <<1>> ELSE <<2>>)
            /\ value_stack = <<IntV(9)>>
       /\ (/\ status = "done"
           /\ code = <<"9">> \o c \o Quote(<<"1", "print">>) \o <<"if">>) =>
            /\ output = PrintedInts(IF c \in TruthyConditions THEN <<1>> ELSE <<>>)
            /\ value_stack = <<IntV(9)>>

\* `ifelse` has taken its else-block, another than its if-block, on a falsy
\* condition
C9_Witness ==
  /\ last.act = "ifelse"
  /\ status = "running"
  /\ Len(pre.value_stack) >= 3
  /\ LET k == Len(pre.value_stack)
     IN /\ ~Truthy(pre.value_stack[k - 2])
        /\ pre.value_stack[k] # pre.value_stack[k - 1]
        /\ Last(invocations).tokens = pre.value_stack[k].c
        /\ Last(invocations).tokens # <<>>

\* what of a state the caller of eval and the user can see
Observable(s) ==
  [value_stack |-> s.value_stack, call_stack |-> s.call_stack, output |-> s.output,
   status |-> s.status, err |-> s.err]

\* s, a state about to execute a token `@name`, with that token replaced by
\* the two tokens `name` and `@`
WithNameThenCall(s) ==
  [s EXCEPT !.invocations[Len(s.invocations)].tokens =
     <<StrTail(Head(@), 2), "@">> \o Tail(@)]

\* the steps within which the runs compared below end
RunFuel == 40

Needs(act) ==
  CASE act \in {"unary", "print", "dup", "drop", "@", "=name", "return_cond"} -> 1
    [] act \in {"binary", "if", "while"} -> 2
    [] act = "ifelse" -> 3
    [] OTHER -> 0

\* the last step was of a token that needs more values than the stack held
Underflow == last.act # "eval" /\ Len(pre.value_stack) < Needs(last.act)

\* the last step was a reference to a name that no frame binds
Unbound ==
  \/ last.act = "name" /\ Binders(pre.call_stack, last.token) = {}
  \/ last.act = "@name" /\ Binders(pre.call_stack, StrTail(last.token, 2)) = {}

\* C11: a token that needs more values than the value stack holds, or that
\* refers to a name no frame binds, raises (IndexError, NameError) at whatever
\* depth of nested evaluations it is executed, and nothing catches it: no step
\* follows, the tokens that every evaluation in progress had left stay
\* unexecuted, and nothing more is printed.
C11_ErrorsAbort ==
  /\ Underflow => status = "error" /\ err = "IndexError"
  /\ (Unbound /\ ~Underflow) => status = "error" /\ err = "NameError"
  /\ (status = "error" /\ err \in {"IndexError", "NameError"}) =>
       /\ Underflow \/ Unbound
       /\ ~ENABLED Next
       /\ output = pre.output
       /\ IF last.act = "return_cond"
          THEN invocations = Front(pre.invocations)
          ELSE /\ Len(invocations) = Len(pre.invocations)
               /\ Front(invocations) = Front(pre.invocations)
               /\ Last(invocations).tokens = Tail(Last(pre.invocations).tokens)

\* a token has failed in an evaluation nested in a function and a loop, each
\* evaluation in progress having tokens left
C11_Witness ==
  /\ status = "error"
  /\ err \in {"IndexError", "NameError"}
  /\ Len(invocations) >= 3
  /\ \A k \in 1..Len(invocations) : invocations[k].tokens # <<>>
  /\ \E k \in 1..Len(invocations) : invocations[k].new_frame
  /\ \E k \in 1..Len(invocations) : invocations[k].resume = "body"

\* the depth the bracket reader is at when the evaluator, at depth d, has
\* taken every token of tokens; 0 when it is not reading
RECURSIVE DepthAtEnd(_, _)
DepthAtEnd(tokens, d) ==
  IF tokens = <<>> THEN d
  ELSE DepthAtEnd(Tail(tokens),
                  CASE Head(tokens) = "[" -> d + 1
                    [] Head(tokens) = "]" /\ d > 0 -> d - 1
                    [] OTHER -> d)

\* C12: when eval's tokens end while the bracket reader's depth is above 0,
\* the evaluation ends with an exception (StopIteration) that nothing catches:
\* no step follows, no list has been pushed for the open bracket, the value
\* stack and the call stack being what they were at the `[`, and eval does not
\* return.  That is the fate of every program whose last top-level `[` has
\* no matching `]`, if no error comes earlier.
C12_UnmatchedBracketAborts ==
  /\ last.act = "unmatched" =>
       /\ status = "error"
       /\ err = "StopIteration"
       /\ pre.depth > 0
       /\ Len(invocations) = 1
       /\ value_stack = pre.value_stack
       /\ call_stack = pre.call_stack
       /\ output = pre.output
       /\ ~ENABLED Next
       /\ \A j \in 0..Len(opened) : Level(SubSeq(opened, 1, j)) >= 1
  /\ (status = "running" /\ depth > 0) => Len(value_stack) = Len(pre.value_stack)
  /\ (status = "running" /\ depth > 0 /\ Cur.tokens = <<>>) =>
       Len(invocations) = 1 /\ steps < MaxSteps /\ ENABLED UnmatchedBracket
  /\ (status = "error" /\ err = "StopIteration") =>
       last.act = "unmatched" /\ DepthAtEnd(code, 0) > 0
  /\ status = "done" => DepthAtEnd(code, 0) = 0

\* the tokens have ended two brackets deep, with values on the stack and
\* tokens collected
C12_Witness ==
  /\ last.act = "unmatched"
  /\ status = "error"
  /\ pre.depth >= 2
  /\ pre.token_list # <<>>
  /\ value_stack # <<>>

\* the frame in which each of names is bound to the integer of the same place
\* in values
Bound(names, values) ==
  [name \in {names[k] : k \in 1..Len(names)} |->
     IntV(values[CHOOSE k \in 1..Len(names) : names[k] = name])]

\* C13: when a token fails, the value stack and the call stack are what the
\* tokens before it made them, less only what the failing token itself had
\* popped and plus only the frame it had pushed: nothing is put back.  A
\* program that binds x, pushes 7, calls a function that pushes 3, and in a
\* branch binds z, pushes 5 and then names an unbound variable fails with 7,
\* 3 and 5 on the value stack and x and z bound.
C13_NoRollback ==
  /\ status = "error" =>
       LET n == Len(pre.value_stack)
           popped == CASE err = "IndexError" -> n
                       [] err \in {"NameError", "StopIteration"} -> 0
                       [] OTHER -> Needs(last.act)
           pushed == err = "TypeError" /\ last.act \in {"@", "@name"}
       IN /\ popped <= n
          /\ value_stack = SubSeq(pre.value_stack, 1, n - popped)
          /\ call_stack = IF pushed THEN Append(pre.call_stack, EmptyFrame) ELSE pre.call_stack
          /\ output = pre.output
  /\ (code = FailsInBranch /\ status # "running") =>
       /\ status = "error"
       /\ err = "NameError"
       /\ last.token = "nosuch"
       /\ value_stack = <<IntV(7), IntV(3), IntV(5)>>
       /\ call_stack = <<Bound(<<"x", "z">>, <<1, 4>>)>>

\* a token has failed in a branch, after tokens of the branch, of the
\* evaluation around it and of a function that has returned had pushed values
\* and bound names
C13_Witness ==
  /\ code = FailsInBranch
  /\ status = "error"
  /\ Len(invocations) = 2
  /\ Len(value_stack) = 3
  /\ DOMAIN call_stack[1] = {"x", "z"}

\* the lists of tokens that the state holds as values or is executing
StoredLists ==
  {value_stack[k].c : k \in 1..Len(value_stack)}
    \cup UNION {{call_stack[k][name].c : name \in DOMAIN call_stack[k]} : k \in 1..Len(call_stack)}
    \cup {invocations[k].tokens : k \in 2..Len(invocations)}
    \cup {token_list}

\* eval of the lines typed so far, as one text
Batch == Run(eval_state(parse(typed), FALSE, <<>>), steps + 1)

\* C14: whenever repl waits for a line, no error having been raised, the
\* value stack and the call stack are those that one eval of the lines typed
\* so far, joined, ends with: eval's result when no bracket is open, and the
\* stacks at its unmatched-bracket error when one is.  The end-of-line marker
\* that follows each line changes neither stack and is in no list of tokens.
C14_ReplIsOneEvaluation ==
  /\ (status = "running" /\ Len(invocations) = 1 /\ Cur.tokens = <<>>) =>
       /\ value_stack = Batch.value_stack
       /\ call_stack = Batch.call_stack
       /\ depth = 0 => Batch.status = "done"
       /\ depth > 0 => Batch.status = "error" /\ Batch.err = "StopIteration"
  /\ last.act = "_end_of_line" =>
       /\ status = "running"
       /\ value_stack = pre.value_stack
       /\ call_stack = pre.call_stack
  /\ (last.act = "read" /\ last.token = "_end_of_line") =>
       [State EXCEPT !.invocations = <<>>, !.output = <<>>]
         = [pre EXCEPT !.invocations = <<>>, !.output = <<>>]
  /\ \A list \in StoredLists : \A k \in 1..Len(list) : list[k] # "_end_of_line"

\* repl waits for a fourth line, after a function typed over two lines has
\* been bound and called
C14_Witness ==
  /\ status = "running"
  /\ Len(invocations) = 1
  /\ Cur.tokens = <<>>
  /\ depth = 0
  /\ Len(typed) = 3
  /\ DepthAtEnd(parse(<<typed[1]>>), 0) > 0
  /\ value_stack # <<>>
  /\ \E name \in DOMAIN call_stack[1] : call_stack[1][name].t = "list"
  /\ \E k \in 1..Len(output) : output[k][1] = "==="

\* C15: in repl an exception raised by a token (IndexError, NameError,
\* TypeError, ...) ends the session, whatever lines are still to come: no step
\* follows it, so no line is read after it and nothing uses the stacks again.
\* The session never ends by eval returning; the end of input is an exception
\* too (EOFError); only KeyboardInterrupt, which repl catches, ends it without
\* one.
C15_ErrorEndsSession ==
  /\ status \in {"running", "error", "interrupted"}
  /\ (Underflow \/ Unbound) => status = "error"
  /\ status = "error" =>
       /\ err # ""
       /\ ~ENABLED NextRepl
       /\ last.act \notin {"input", "interrupt"}
       /\ lines = pre.lines
       /\ err = "EOFError" <=> last.act = "eof"
  /\ status = "interrupted" =>
       /\ last.act = "interrupt"
       /\ err = ""
       /\ ~ENABLED NextRepl
  /\ last.act = "interrupt" => status = "interrupted"
  /\ last.act = "eof" => lines = <<>> /\ status = "error"

\* a token of the second line has failed, with values on the stack and a
\* line still to come
C15_Witness ==
  /\ status = "error"
  /\ err \in {"IndexError", "NameError"}
  /\ Len(typed) = 2
  /\ lines # <<>>
  /\ Head(lines) # ""
  /\ value_stack # <<>>

\* the integer that a literal of the sum programs denotes
Denotes(token) ==
  CASE token = "2" -> 2
    [] token = "-3" -> -3
    [] token = "10" -> 10
    [] token = "007" -> 7
    [] token = "-0" -> 0
    [] token = "12" -> 12
    [] OTHER -> 0

\* the sum of the literals of tokens
RECURSIVE LiteralSum(_)
LiteralSum(tokens) ==
  IF tokens = <<>> THEN 0 ELSE Denotes(Head(tokens)) + LiteralSum(Tail(tokens))

RECURSIVE StackSum(_)
StackSum(values) == IF values = <<>> THEN 0 ELSE Head(values).n + StackSum(Tail(values))

\* the values on the stack after tokens: one for each literal, one less for
\* each `+`
Height(tokens) == Len(tokens) - 2 * Count(tokens, "+")

\* every `+` of tokens finds two values
Summable(tokens) ==
  \A j \in 1..Len(tokens) : tokens[j] = "+" => Height(SubSeq(tokens, 1, j - 1)) >= 2

\* C16 as stated: any program of integer literals and `+` ends with the sum of
\* its integers as its stack.
C16_Original ==
  code \in SumPrograms =>
    /\ status \in {"running", "done"}
    /\ status = "done" => value_stack = <<IntV(LiteralSum(code))>>

\* C16: a program of integer literals and `+` in which every `+` finds two
\* values on the stack ends with integers on the stack that add up to the sum
\* of its literals, one for each literal less one for each `+`: the sum alone
\* when the program has one literal more than it has `+`.  Any other program
\* of literals and `+` fails with a stack underflow.
C16_SumOfLiterals ==
  code \in SumPrograms =>
    /\ status \in {"running", "done", "error"}
    /\ status = "running" => ENABLED Next
    /\ status = "done" =>
         /\ Summable(code)
         /\ Len(value_stack) = Height(code)
         /\ \A k \in 1..Len(value_stack) : value_stack[k].t = "int"
         /\ StackSum(value_stack) = LiteralSum(code)
         /\ Height(code) = 1 => value_stack = <<IntV(LiteralSum(code))>>
    /\ status = "error" => err = "IndexError" /\ ~Summable(code)

\* three literals, one of them negative, have been added up
C16_Witness ==
  /\ code \in SumPrograms
  /\ status = "done"
  /\ Len(code) = 5
  /\ Count(code, "+") = 2
  /\ Count(code, "-3") = 1
  /\ code[2] = "-3"
  /\ value_stack = <<IntV(LiteralSum(code))>>

IsTrace(event) == event[1] = "==="

NoTrace(event) == ~IsTrace(event)

\* s with debug=False and without the lines that debug_print has printed, the
\* stack shown at an end of line among them
Untraced(s) == [s EXCEPT !.debug = FALSE, !.output = SelectSeq(@, NoTrace)]

\* what the last step printed
Shown == SubSeq(output, Len(pre.output) + 1, Len(output))

\* C17: eval with debug=True goes, step for step, through the states that
\* eval with debug=False goes through on the same tokens, but for the lines of
\* trace printed between the others: the same value stack, call stack,
\* nested evaluations, values printed and exception.  Before each token the
\* trace shows the value stack and the token, at each return the value stack,
\* at the call depth of the evaluation, and changes nothing; the stack shown
\* at an end of line is shown with and without debug.
C17_TracingDecoupled ==
  /\ debug
  /\ last.act = "eval" => Untraced(State) = eval_state(code, FALSE, <<>>)
  /\ last.act # "eval" => Untraced(State) = Untraced(StepState(Untraced(pre)))
  /\ last.act = "_end_of_line" =>
       /\ Shown = <<<<"===", Len(pre.invocations) - 1, "Stack", pre.value_stack>>>>
       /\ output = StepState([pre EXCEPT !.debug = FALSE]).output
  /\ last.act \notin {"eval", "read", "unmatched", "_end_of_line"} =>
       /\ Len(Shown) >= 2
       /\ Shown[1] = <<"===", Len(pre.invocations) - 1, "Stack", pre.value_stack>>
       /\ Shown[2] \in
            {<<"===", Len(pre.invocations) - 1, "Executing",
               IF last.token = "[" THEN "[...]" ELSE last.token>>,
             <<"===", Len(pre.invocations) - 1, "Returning!..">>}
       /\ \A k \in 3..Len(Shown) : ~IsTrace(Shown[k])
  /\ last.act \in {"read", "unmatched"} => Shown = <<>>

\* a traced run has ended, having printed values and lines of trace from
\* evaluations nested two deep, with names bound
C17_Witness ==
  /\ debug
  /\ status = "done"
  /\ DOMAIN call_stack[1] # {}
  /\ \E k \in 1..Len(output) : output[k][1] = "print"
  /\ \E k \in 1..Len(output) : IsTrace(output[k]) /\ output[k][2] >= 2

\* the failing token of the program of FailsInCalls that has failed
Failing == CHOOSE failing \in {<<"+">>, <<"4", "~", "+">>, <<"4">> \o Quote(<<>>) \o <<"+">>,
                               <<"5", "@">>, <<"@c">>, <<"@d">>} :
             code = <<"1", "=a">>
                      \o Quote(<<"2", "=b">> \o Quote(<<"3", "=c">> \o failing \o <<"9">>)
                                 \o <<"=g", "@g", "9">>)
                      \o <<"@", "9">>

\* C18: when a token fails, no frame is popped: the call stack holds the
\* global frame and one frame for each `@` / `@name` invocation in progress,
\* the one that failed on entry (its operand no list of tokens) included,
\* each frame with the bindings it had.  A token failing in a function g
\* called by a function leaves three frames, with the bindings of the two
\* functions in the second and the third.
C18_FramesLeftOnError ==
  /\ status = "error" =>
       LET entering == err = "TypeError" /\ last.act \in {"@", "@name"}
       IN /\ Len(call_stack) = 1 + InProgress(invocations) + (IF entering THEN 1 ELSE 0)
          /\ call_stack = IF entering THEN Append(pre.call_stack, EmptyFrame) ELSE pre.call_stack
          /\ \A k \in 1..Len(invocations) :
               invocations[k].new_frame =>
                 /\ Len(call_stack) > Len(invocations[k].entry)
                 /\ SubSeq(call_stack, 1, Len(invocations[k].entry)) = invocations[k].entry
  /\ (code \in FailsInCalls /\ status # "running") =>
       /\ status = "error"
       /\ InProgress(invocations) = 2
       /\ call_stack[1] = Bound(<<"a">>, <<1>>)
       /\ DOMAIN call_stack[2] = {"b", "g"}
       /\ call_stack[2]["b"] = IntV(2)
       /\ call_stack[3] = Bound(<<"c">>, <<3>>)
       /\ Len(call_stack) = IF Failing \in {<<"5", "@">>, <<"@c">>} THEN 4 ELSE 3
       /\ err = CASE Failing \in {<<"+">>, <<"4", "~", "+">>} -> "IndexError"
                   [] Failing = <<"@d">> -> "NameError"
                   [] OTHER -> "TypeError"

\* a token has failed in a function called by a function, each with a
\* binding in its frame
C18_Witness ==
  /\ status = "error"
  /\ code \in FailsInCalls
  /\ InProgress(invocations) = 2
  /\ Len(call_stack) = 3
  /\ "c" \in DOMAIN call_stack[3]
  /\ "b" \in DOMAIN call_stack[2]

\* C19: an IndexError is raised only by a token that needs more values than
\* the value stack holds, and it leaves the value stack empty: the token has
\* popped the values there were before it found one missing, and they are not
\* put back.  `dup` fails only on an empty stack, which it leaves empty.
C19_UnderflowEmptiesStack ==
  /\ (status = "error" /\ err = "IndexError") =>
       /\ Underflow
       /\ value_stack = <<>>
       /\ call_stack = pre.call_stack
  /\ Underflow =>
       /\ status = "error"
       /\ err = "IndexError"
       /\ value_stack = <<>>
  /\ (last.act = "dup" /\ status = "error") => pre.value_stack = <<>> /\ value_stack = <<>>
  /\ \A k \in 0..2, token \in {"+", "if", "ifelse", "while"} :
       (/\ code = SubSeq(<<"1", "2">>, 1, k) \o <<token>>
        /\ last.token = token
        /\ k < (IF token = "ifelse" THEN 3 ELSE 2)) =>
         /\ status = "error"
         /\ err = "IndexError"
         /\ Len(pre.value_stack) = k
         /\ value_stack = <<>>

\* `ifelse` has failed on a stack of two values, and has left none
C19_Witness ==
  /\ last.act = "ifelse"
  /\ status = "error"
  /\ err = "IndexError"
  /\ Len(pre.value_stack) = 2
  /\ value_stack = <<>>

\* C20: in repl a `[` that the lines typed so far leave open raises nothing:
\* when the reader finds no token left it waits for the next line.  From the
\* `[` to its matching `]` every step is the reader taking a token or a line
\* being read: no token is executed, the value stack and the call stack stay
\* as they are and no stack is shown at the ends of lines, whose markers are
\* neither collected nor counted; the other tokens are collected in order.  At
\* the matching `]` the list is pushed and the token after it is the next to
\* be executed.
C20_OpenBracketSpansLines ==
  /\ err # "StopIteration"
  /\ (status = "running" /\ depth > 0 /\ Cur.tokens = <<>>) =>
       /\ Len(invocations) = 1
       /\ steps < MaxSteps => ENABLED ReadLine \/ ENABLED EndOfInput
  /\ (last.act # "eval" /\ pre.depth > 0) =>
       /\ last.act \in {"read", "input", "eof", "interrupt"}
       /\ call_stack = pre.call_stack
       /\ \A k \in (Len(pre.output) + 1)..Len(output) : output[k][1] = "prompt"
       /\ last.act = "input" =>
            /\ status = "running"
            /\ depth = pre.depth
            /\ token_list = pre.token_list
            /\ value_stack = pre.value_stack
       /\ last.act = "read" =>
            /\ status = "running"
            /\ output = pre.output
            /\ Cur.tokens = Tail(Last(pre.invocations).tokens)
            /\ depth = pre.depth + (CASE last.token = "[" -> 1
                                       [] last.token = "]" -> -1
                                       [] OTHER -> 0)
            /\ IF depth > 0
               THEN /\ value_stack = pre.value_stack
                    /\ token_list = IF last.token = "_end_of_line" THEN pre.token_list
                                    ELSE Append(pre.token_list, last.token)
               ELSE /\ last.token = "]"
                    /\ value_stack = Append(pre.value_stack, ListV(pre.token_list))
                    /\ ENABLED ReadLine <=> Cur.tokens = <<>> /\ lines # <<>>

\* the `]` typed on a third line has closed the `[` of the first, and the
\* tokens of the three lines are in the list pushed
C20_Witness ==
  /\ last.act = "read"
  /\ status = "running"
  /\ depth = 0
  /\ typed = <<"1 [ 2", "3 dup", "4 ] @">>
  /\ value_stack = <<IntV(1), ListV(<<"2", "3", "dup", "4">>)>>
  /\ Cur.tokens = <<"@", "_end_of_line">>

====
